---- MODULE Spec2Model ----
(***************************************************************************)
(* Porta-Scope: the JACK recorder (wav_plugin/jack_record.py,              *)
(* JackAudioSink) and the JACK WAV player (wav_plugin/jack_play.py,        *)
(* JackWavPlayer) as state machines.                                       *)
(*                                                                         *)
(* The recorder has three kinds of thread: the callers of start_recording  *)
(* and stop_recording (the command loop on the main thread, and the JACK   *)
(* shutdown callback), the JACK process thread running process_callback,   *)
(* and one write_worker thread per successful start_recording.  Every      *)
(* read or write of a shared attribute is one step, so that the            *)
(* interleavings the interpreter allows are the interleavings of the       *)
(* model.  Time is abstracted: a wait with a timeout may time out          *)
(* whenever the thing waited for has not happened.                         *)
(***************************************************************************)
EXTENDS Naturals, Integers, Sequences, FiniteSets, TLC

(* ---------------------------- bounds ---------------------------------- *)

\* start_recording calls that get as far as opening a file
MaxSessions == 2
\* process_callback invocations that capture a block, in Spec
MaxCallbacks == 3
\* process_callback invocations beyond the queue's capacity, in SpecFill
MaxOverrun == 2

\* frames of the WAV file the player loads
MaxLen == 3
\* channels of that file
MaxChannels == 2
\* frames of one JACK process cycle (the server's block size)
MaxFrames == 2
\* process cycles of the player
MaxCalls == 4
\* the sample rate of the WAV file the player loads, in Hz
FileRate == 44100
\* callbacks of each of the example programs (Jack_Transmitter.py, audio_example.py,
\* wav_to_jack.py, Jack_Receiver.py)
MaxCycles == 4
\* start() and stop() calls on a SineWaveGenerator
MaxCmds == 4
\* the largest block size of the JACK server AudioReceiver runs on
MaxBlocksize == 512

(* ----------------------- program constants ---------------------------- *)

\* queue.Queue(maxsize=100)
QueueMaxsize == 100

\* Python's None, for output_file and write_thread
None == 0

\* the positional arguments the JACK client library passes to a shutdown callback,
\* (status, reason), as JackAudioSink.shutdown_callback declares them
ShutdownArgs == 2

\* the positional parameters, besides self, of JackAudioSink.shutdown_callback and of
\* JackWavPlayer.shutdown_callback
sink_shutdown_params == 2
player_shutdown_params == 0

\* wav_to_jack.py: samplerate and duration of the generated sine wave, whose length is
\* int(duration * samplerate)
sine_samplerate == 160000
sine_duration == 1

\* AudioReceiver.process_audio: the buffer is extended while it is shorter than this
buffer_limit == 1000

Callers == {"main", "jack"}
Handles == 1..MaxSessions

VARIABLES
    \* JackAudioSink attributes
    is_recording, should_stop, audio_queue, output_file, write_thread,
    \* the SoundFile objects start_recording has created: state and frames written
    file_state, file_data,
    \* the write_worker threads: position and the local audio_data
    wpc, wbuf,
    \* the callers of start_recording / stop_recording: position, thread being joined
    pc, jt,
    \* process_callback on the JACK process thread: position, the local audio_data
    cb_pc, cb_buf,
    \* blocks captured so far, SoundFile objects created so far
    ncb, nopen,
    \* standard output: "Warning: Audio buffer full" lines, "Error writing audio" lines
    warnings, write_errors,
    \* history: per session the blocks put on the queue, and the blocks dropped
    pushed, dropped,
    \* what the last start_recording / stop_recording call of each caller returned;
    \* history: how many blocks the session had put when stop_recording ended it;
    \* history: for each block captured, the file that was the last opened when
    \* process_callback found is_recording True and captured it
    ret, at_stop, session_of

VARIABLES
    \* JackWavPlayer attributes: the frames loaded from the WAV file, the cursor, the flag
    audio_data, channels, position, playing,
    \* the JACK output port buffers, as the last process cycle left them
    out,
    \* JackWavPlayer.process_callback: position, and the locals frames, frames_to_play,
    \* the port index, the slice start read for it, the value read by +=
    p_pc, frames, frames_to_play, ch, lo, tmp,
    \* the command loop of the player: position inside play()
    m_pc,
    \* standard output: "Playback finished" lines since play() was last called;
    \* whether play() has been called at all
    finished, played,
    \* process cycles begun and ended
    ncalls, ndone,
    \* history of the cycle in progress: the cursor when it began, whether it began
    \* playing, whether a command / a play() ran during it; the highest slice stop read
    e_pos, e_playing, cmd_during, play_during, read_hi,
    \* history: playing has gone from False to True since process_callback last read
    \* position; the last two methods called since the last step of process_callback;
    \* the play() request in force: "pending" once play() has returned, "running" once
    \* process_callback has read position after that (at any line), "none" once stop(), pause() or
    \* another play() has been called or the playback has finished; for each port, the
    \* frames of the source copied into it since play() was last called, in order
    turned_on, calls, play_state, emitted

VARIABLES
    \* the script this process runs, jack_record.py or jack_play.py: the object that
    \* exists, and whose methods and callbacks can be entered
    script,
    \* the JACK server has shut down and the client's shutdown callback has been called
    jack_down

VARIABLES
    \* JackWavPlayer.sample_rate, the rate of the file, and client.samplerate, the rate
    \* of the JACK server
    sample_rate, samplerate,
    \* the JACK client has been activated: the server calls its callbacks
    client_active,
    \* JackWavPlayer.start_jack: position, what it returned, and standard output: the
    \* "Warning: JACK sample rate ... doesn't match" lines
    j_pc, start_ret, rate_warnings

VARIABLES
    \* AudioSender (Jack_Transmitter.py): phase, and the local samples of the last
    \* process_audio; history: the sum of the frame counts, every sample index used so
    \* far in order, the number of calls
    phase, samples, frames_sum, indices, sender_calls,
    \* SineWaveGenerator (audio_example.py): phase, is_playing, stream (the number of the
    \* stream it refers to, None before the first), the local samples of the last
    \* callback; the streams PyAudio has open; the position of the main thread in
    \* start() or stop(); history: the sum of the frame counts, every sample index used,
    \* the number of callbacks, of streams opened, of start() and stop() calls, and the
    \* last method called with the value of is_playing when it was entered
    g_phase, is_playing, stream, g_samples, open_streams, g_pc,
    g_frames_sum, g_indices, g_calls, nstreams, g_cmds, g_last,
    \* wav_to_jack.py: the port buffer after the last process, whether process has
    \* raised; history: the first value read from client.frame_time and the frame
    \* count of the last process, the number of calls
    out_buffer, w_pc, frame_time, w_frames, w_calls,
    \* AudioReceiver (Jack_Receiver.py): buffer, block_counter (<<>> while the attribute
    \* does not exist), the output port after the last process_audio; history: the
    \* largest block size seen, the number of calls
    buffer, block_counter, r_out, largest, r_calls

senderVars == <<phase, samples, frames_sum, indices, sender_calls>>

generatorVars == <<g_phase, is_playing, stream, g_samples, open_streams, g_pc,
                   g_frames_sum, g_indices, g_calls, nstreams, g_cmds, g_last>>

sineVars == <<out_buffer, w_pc, frame_time, w_frames, w_calls>>

receiverVars == <<buffer, block_counter, r_out, largest, r_calls>>

exampleVars == <<senderVars, generatorVars, sineVars, receiverVars>>

recVars == <<is_recording, should_stop, audio_queue, output_file, write_thread,
             file_state, file_data, wpc, wbuf, pc, jt, cb_pc, cb_buf, ncb, nopen,
             warnings, write_errors, pushed, dropped, ret, at_stop, session_of>>

playVars == <<audio_data, channels, position, playing, out, p_pc, frames,
              frames_to_play, ch, lo, tmp, m_pc, finished, played, ncalls, ndone,
              e_pos, e_playing, cmd_during, play_during, read_hi, turned_on, calls, play_state, emitted>>

startVars == <<sample_rate, samplerate, client_active, j_pc, start_ret, rate_warnings>>

vars == <<recVars, playVars, script, jack_down, startVars, exampleVars>>

\* what the recorder's steps leave alone, and what the player's steps leave alone
notRecorder == <<playVars, script, jack_down, startVars, exampleVars>>
notPlayer == <<recVars, script, jack_down, startVars, exampleVars>>

(* ------------------------- JackAudioSink ------------------------------ *)

\* __init__: the state after construction
RecInit ==
    /\ is_recording = FALSE
    /\ should_stop = FALSE
    /\ audio_queue = <<>>
    /\ output_file = None
    /\ write_thread = None
    /\ file_state = [h \in Handles |-> "absent"]
    /\ file_data = [h \in Handles |-> <<>>]
    /\ wpc = [w \in Handles |-> "unborn"]
    /\ wbuf = [w \in Handles |-> 0]
    /\ pc = [t \in Callers |-> "idle"]
    /\ jt = [t \in Callers |-> None]
    /\ cb_pc = "idle"
    /\ cb_buf = 0
    /\ ncb = 0
    /\ nopen = 0
    /\ warnings = 0
    /\ write_errors = 0
    /\ pushed = [h \in Handles |-> <<>>]
    /\ dropped = {}
    /\ ret = [t \in Callers |-> "no call"]
    /\ at_stop = 0
    /\ session_of = <<>>

\* threading.Thread.is_alive
is_alive(w) == wpc[w] \notin {"unborn", "dead"}

\* write_worker, lines 185-192, against the 5 s of line 171: a worker with no block
\* in hand and none queued sees should_stop within one 0.1 s wait of get, so only a
\* worker that still has a block to write (a write may block for any time) can
\* outlast the join
has_work(w) == wpc[w] \in {"check", "write"} \/ audio_queue # <<>>

\* queue_full off by one
queue_full_late(q) == Len(q) > QueueMaxsize

\* queue.Queue.put(item, block=False): Full is raised when the queue holds maxsize items
queue_full(q) == Len(q) >= QueueMaxsize

\* process_callback_check without the test of line 64
process_callback_check_always(limit) ==
    /\ script = "jack_record"
    /\ cb_pc = "idle"
    /\ ~jack_down
    /\ ncb < limit
    /\ ncb' = ncb + 1
    /\ cb_buf' = ncb + 1
    /\ cb_pc' = "put"
    /\ session_of' = Append(session_of, nopen)
    /\ UNCHANGED <<is_recording, should_stop, audio_queue, output_file, write_thread,
                   file_state, file_data, wpc, wbuf, pc, jt, nopen,
                   warnings, write_errors, pushed, dropped>>
    /\ UNCHANGED <<ret, at_stop, notRecorder>>

\* process_callback, line 64: a block arrives; nothing happens unless is_recording.
\* The block captured is numbered ncb + 1 (column_stack of the ports, copied).
process_callback_check(limit) ==
    /\ script = "jack_record"
    /\ cb_pc = "idle"
    /\ ~jack_down
    /\ ncb < limit
    /\ IF is_recording
       THEN /\ ncb' = ncb + 1
            /\ cb_buf' = ncb + 1
            /\ cb_pc' = "put"
            /\ session_of' = Append(session_of, nopen)
       ELSE UNCHANGED <<ncb, cb_buf, cb_pc, session_of>>
    /\ UNCHANGED <<is_recording, should_stop, audio_queue, output_file, write_thread,
                   file_state, file_data, wpc, wbuf, pc, jt, nopen,
                   warnings, write_errors, pushed, dropped>>
    /\ UNCHANGED <<ret, at_stop, notRecorder>>

\* process_callback_put with the oldest block overwritten when the queue is full
process_callback_put_overwrite ==
    /\ cb_pc = "put"
    /\ IF queue_full(audio_queue)
       THEN /\ warnings' = warnings + 1
            /\ dropped' = dropped \cup {Head(audio_queue)}
            /\ audio_queue' = Append(Tail(audio_queue), cb_buf)
            /\ UNCHANGED pushed
       ELSE /\ audio_queue' = Append(audio_queue, cb_buf)
            /\ pushed' = IF nopen = 0 THEN pushed
                         ELSE [pushed EXCEPT ![nopen] = Append(@, cb_buf)]
            /\ UNCHANGED <<warnings, dropped>>
    /\ cb_pc' = "idle"
    /\ cb_buf' = 0
    /\ UNCHANGED <<is_recording, should_stop, output_file, write_thread,
                   file_state, file_data, wpc, wbuf, pc, jt, ncb, nopen, write_errors>>
    /\ UNCHANGED <<ret, at_stop, session_of, notRecorder>>

\* process_callback_put with the queue.Full handler silent
process_callback_put_silent ==
    /\ cb_pc = "put"
    /\ IF queue_full(audio_queue)
       THEN /\ dropped' = dropped \cup {cb_buf}
            /\ UNCHANGED <<audio_queue, pushed, warnings>>
       ELSE /\ audio_queue' = Append(audio_queue, cb_buf)
            /\ pushed' = IF nopen = 0 THEN pushed
                         ELSE [pushed EXCEPT ![nopen] = Append(@, cb_buf)]
            /\ UNCHANGED <<warnings, dropped>>
    /\ cb_pc' = "idle"
    /\ cb_buf' = 0
    /\ UNCHANGED <<is_recording, should_stop, output_file, write_thread,
                   file_state, file_data, wpc, wbuf, pc, jt, ncb, nopen, write_errors>>
    /\ UNCHANGED <<ret, at_stop, session_of, notRecorder>>

\* process_callback_put with the block put at the head of the queue
process_callback_put_front ==
    /\ cb_pc = "put"
    /\ IF queue_full(audio_queue)
       THEN /\ warnings' = warnings + 1
            /\ dropped' = dropped \cup {cb_buf}
            /\ UNCHANGED <<audio_queue, pushed>>
       ELSE /\ audio_queue' = <<cb_buf>> \o audio_queue
            /\ pushed' = IF nopen = 0 THEN pushed
                         ELSE [pushed EXCEPT ![nopen] = Append(@, cb_buf)]
            /\ UNCHANGED <<warnings, dropped>>
    /\ cb_pc' = "idle"
    /\ cb_buf' = 0
    /\ UNCHANGED <<is_recording, should_stop, output_file, write_thread,
                   file_state, file_data, wpc, wbuf, pc, jt, ncb, nopen, write_errors>>
    /\ UNCHANGED <<ret, at_stop, session_of, notRecorder>>

\* process_callback, lines 78-81: audio_queue.put(copy, block=False); on queue.Full
\* a warning is printed and the block is discarded
process_callback_put ==
    /\ cb_pc = "put"
    /\ IF queue_full(audio_queue)
       THEN /\ warnings' = warnings + 1
            /\ dropped' = dropped \cup {cb_buf}
            /\ UNCHANGED <<audio_queue, pushed>>
       ELSE /\ audio_queue' = Append(audio_queue, cb_buf)
            /\ pushed' = IF nopen = 0 THEN pushed
                         ELSE [pushed EXCEPT ![nopen] = Append(@, cb_buf)]
            /\ UNCHANGED <<warnings, dropped>>
    /\ cb_pc' = "idle"
    /\ cb_buf' = 0
    /\ UNCHANGED <<is_recording, should_stop, output_file, write_thread,
                   file_state, file_data, wpc, wbuf, pc, jt, ncb, nopen, write_errors>>
    /\ UNCHANGED <<ret, at_stop, session_of, notRecorder>>

\* start_recording_call without the test of line 117
start_recording_call_again(t, sessions) ==
    /\ script = "jack_record"
    /\ pc[t] = "idle"
    /\ is_recording \/ nopen < sessions
    /\ pc' = [pc EXCEPT ![t] = "r_open"]
    /\ UNCHANGED <<is_recording, should_stop, audio_queue, output_file, write_thread,
                   file_state, file_data, wpc, wbuf, jt, cb_pc, cb_buf, ncb, nopen,
                   warnings, write_errors, pushed, dropped>>
    /\ UNCHANGED <<ret, at_stop, session_of, notRecorder>>

\* start_recording, lines 117-119: "Already recording!" is printed and False returned
start_recording_call(t, sessions) ==
    /\ script = "jack_record"
    /\ pc[t] = "idle"
    /\ is_recording \/ nopen < sessions
    /\ pc' = [pc EXCEPT ![t] = IF is_recording THEN "idle" ELSE "r_open"]
    /\ ret' = IF is_recording THEN [ret EXCEPT ![t] = "False"] ELSE ret
    /\ UNCHANGED <<is_recording, should_stop, audio_queue, output_file, write_thread,
                   file_state, file_data, wpc, wbuf, jt, cb_pc, cb_buf, ncb, nopen,
                   warnings, write_errors, pushed, dropped>>
    /\ UNCHANGED <<at_stop, session_of, notRecorder>>

\* start_recording, lines 130-137: sf.SoundFile(filename, mode='w', ...) returns a new
\* open file, which is stored in output_file
start_recording_open(t) ==
    /\ pc[t] = "r_open"
    /\ nopen' = nopen + 1
    /\ output_file' = nopen + 1
    /\ file_state' = [file_state EXCEPT ![nopen + 1] = "open"]
    /\ pc' = [pc EXCEPT ![t] = "r_clear"]
    /\ UNCHANGED <<is_recording, should_stop, audio_queue, write_thread,
                   file_data, wpc, wbuf, jt, cb_pc, cb_buf, ncb,
                   warnings, write_errors, pushed, dropped>>
    /\ UNCHANGED <<ret, at_stop, session_of, notRecorder>>

\* start_recording_open_fails with the failure noticed after line 146
start_recording_open_fails_late(t) ==
    /\ pc[t] = "r_open"
    /\ pc' = [pc EXCEPT ![t] = "idle"]
    /\ ret' = [ret EXCEPT ![t] = "False"]
    /\ audio_queue' = <<>>
    /\ should_stop' = FALSE
    /\ UNCHANGED <<is_recording, output_file, write_thread,
                   file_state, file_data, wpc, wbuf, jt, cb_pc, cb_buf, ncb, nopen,
                   warnings, write_errors, pushed, dropped>>
    /\ UNCHANGED <<at_stop, session_of, notRecorder>>

\* start_recording, lines 130, 156-158: sf.SoundFile raises; the call returns False
start_recording_open_fails(t) ==
    /\ pc[t] = "r_open"
    /\ pc' = [pc EXCEPT ![t] = "idle"]
    /\ ret' = [ret EXCEPT ![t] = "False"]
    /\ UNCHANGED <<is_recording, should_stop, audio_queue, output_file, write_thread,
                   file_state, file_data, wpc, wbuf, jt, cb_pc, cb_buf, ncb, nopen,
                   warnings, write_errors, pushed, dropped>>
    /\ UNCHANGED <<at_stop, session_of, notRecorder>>

\* start_recording, lines 140-144: while not audio_queue.empty(): get_nowait().
\* One iteration per step; the session's own blocks are those put after the loop ends.
start_recording_clear(t) ==
    /\ pc[t] = "r_clear"
    /\ IF audio_queue = <<>>
       THEN /\ pc' = [pc EXCEPT ![t] = "r_event"]
            /\ pushed' = [pushed EXCEPT ![nopen] = <<>>]
            /\ at_stop' = 0
            /\ UNCHANGED audio_queue
       ELSE /\ audio_queue' = Tail(audio_queue)
            /\ UNCHANGED <<pc, pushed, at_stop>>
    /\ UNCHANGED <<is_recording, should_stop, output_file, write_thread,
                   file_state, file_data, wpc, wbuf, jt, cb_pc, cb_buf, ncb, nopen,
                   warnings, write_errors, dropped>>
    /\ UNCHANGED <<ret, session_of, notRecorder>>

\* start_recording, line 146: should_stop.clear()
start_recording_clear_event(t) ==
    /\ pc[t] = "r_event"
    /\ should_stop' = FALSE
    /\ pc' = [pc EXCEPT ![t] = "r_thread"]
    /\ UNCHANGED <<is_recording, audio_queue, output_file, write_thread,
                   file_state, file_data, wpc, wbuf, jt, cb_pc, cb_buf, ncb, nopen,
                   warnings, write_errors, pushed, dropped>>
    /\ UNCHANGED <<ret, at_stop, session_of, notRecorder>>

\* start_recording, lines 149-150: a new writer thread is stored and started.
\* The thread of the n-th file opened is thread n.
start_recording_thread(t) ==
    /\ pc[t] = "r_thread"
    /\ write_thread' = nopen
    /\ wpc' = [wpc EXCEPT ![nopen] = "loop"]
    /\ pc' = [pc EXCEPT ![t] = "r_rec"]
    /\ UNCHANGED <<is_recording, should_stop, audio_queue, output_file,
                   file_state, file_data, wbuf, jt, cb_pc, cb_buf, ncb, nopen,
                   warnings, write_errors, pushed, dropped>>
    /\ UNCHANGED <<ret, at_stop, session_of, notRecorder>>

\* start_recording, lines 152-154: is_recording = True; return True
start_recording_set(t) ==
    /\ pc[t] = "r_rec"
    /\ is_recording' = TRUE
    /\ pc' = [pc EXCEPT ![t] = "idle"]
    /\ ret' = [ret EXCEPT ![t] = "True"]
    /\ UNCHANGED <<should_stop, audio_queue, output_file, write_thread,
                   file_state, file_data, wpc, wbuf, jt, cb_pc, cb_buf, ncb, nopen,
                   warnings, write_errors, pushed, dropped>>
    /\ UNCHANGED <<at_stop, session_of, notRecorder>>

\* stop_recording_call without the test of line 162
stop_recording_call_always(t) ==
    /\ script = "jack_record"
    /\ pc[t] = "idle"
    /\ pc' = [pc EXCEPT ![t] = "s_rec"]
    /\ UNCHANGED <<is_recording, should_stop, audio_queue, output_file, write_thread,
                   file_state, file_data, wpc, wbuf, jt, cb_pc, cb_buf, ncb, nopen,
                   warnings, write_errors, pushed, dropped>>
    /\ UNCHANGED <<ret, at_stop, session_of, notRecorder>>

\* stop_recording, lines 162-163: returns at once unless is_recording
stop_recording_call(t) ==
    /\ script = "jack_record"
    /\ pc[t] = "idle"
    /\ pc' = [pc EXCEPT ![t] = IF is_recording THEN "s_rec" ELSE "idle"]
    /\ ret' = IF is_recording THEN ret ELSE [ret EXCEPT ![t] = "None"]
    /\ UNCHANGED <<is_recording, should_stop, audio_queue, output_file, write_thread,
                   file_state, file_data, wpc, wbuf, jt, cb_pc, cb_buf, ncb, nopen,
                   warnings, write_errors, pushed, dropped>>
    /\ UNCHANGED <<at_stop, session_of, notRecorder>>

\* stop_recording, line 166: is_recording = False
stop_recording_clear(t) ==
    /\ pc[t] = "s_rec"
    /\ is_recording' = FALSE
    /\ pc' = [pc EXCEPT ![t] = "s_event"]
    /\ at_stop' = IF is_recording /\ nopen > 0 THEN Len(pushed[nopen]) ELSE at_stop
    /\ UNCHANGED <<should_stop, audio_queue, output_file, write_thread,
                   file_state, file_data, wpc, wbuf, jt, cb_pc, cb_buf, ncb, nopen,
                   warnings, write_errors, pushed, dropped>>
    /\ UNCHANGED <<ret, session_of, notRecorder>>

\* stop_recording, line 167: should_stop.set()
stop_recording_set_event(t) ==
    /\ pc[t] = "s_event"
    /\ should_stop' = TRUE
    /\ pc' = [pc EXCEPT ![t] = "s_alive"]
    /\ UNCHANGED <<is_recording, audio_queue, output_file, write_thread,
                   file_state, file_data, wpc, wbuf, jt, cb_pc, cb_buf, ncb, nopen,
                   warnings, write_errors, pushed, dropped>>
    /\ UNCHANGED <<ret, at_stop, session_of, notRecorder>>

\* stop_recording, line 170: if self.write_thread and self.write_thread.is_alive()
stop_recording_alive(t) ==
    /\ pc[t] = "s_alive"
    /\ IF write_thread # None /\ is_alive(write_thread)
       THEN /\ jt' = [jt EXCEPT ![t] = write_thread]
            /\ pc' = [pc EXCEPT ![t] = "s_join"]
       ELSE /\ pc' = [pc EXCEPT ![t] = "s_close"]
            /\ UNCHANGED jt
    /\ UNCHANGED <<is_recording, should_stop, audio_queue, output_file, write_thread,
                   file_state, file_data, wpc, wbuf, cb_pc, cb_buf, ncb, nopen,
                   warnings, write_errors, pushed, dropped>>
    /\ UNCHANGED <<ret, at_stop, session_of, notRecorder>>

\* stop_recording, line 171: join(timeout=5.0) returns because the thread has ended
stop_recording_joined(t) ==
    /\ pc[t] = "s_join"
    /\ ~is_alive(jt[t])
    /\ jt' = [jt EXCEPT ![t] = None]
    /\ pc' = [pc EXCEPT ![t] = "s_close"]
    /\ UNCHANGED <<is_recording, should_stop, audio_queue, output_file, write_thread,
                   file_state, file_data, wpc, wbuf, cb_pc, cb_buf, ncb, nopen,
                   warnings, write_errors, pushed, dropped>>
    /\ UNCHANGED <<ret, at_stop, session_of, notRecorder>>

\* stop_recording, line 171: join(timeout=5.0) returns because 5 seconds have passed
\* with the thread still running
stop_recording_join_timeout(t) ==
    /\ pc[t] = "s_join"
    /\ is_alive(jt[t])
    /\ has_work(jt[t])
    /\ jt' = [jt EXCEPT ![t] = None]
    /\ pc' = [pc EXCEPT ![t] = "s_close"]
    /\ UNCHANGED <<is_recording, should_stop, audio_queue, output_file, write_thread,
                   file_state, file_data, wpc, wbuf, cb_pc, cb_buf, ncb, nopen,
                   warnings, write_errors, pushed, dropped>>
    /\ UNCHANGED <<ret, at_stop, session_of, notRecorder>>

\* stop_recording, lines 174-176: if self.output_file: self.output_file.close()
stop_recording_close(t) ==
    /\ pc[t] = "s_close"
    /\ IF output_file # None
       THEN /\ file_state' = [file_state EXCEPT ![output_file] = "closed"]
            /\ pc' = [pc EXCEPT ![t] = "s_none"]
            /\ UNCHANGED ret
       ELSE /\ pc' = [pc EXCEPT ![t] = "idle"]
            /\ ret' = [ret EXCEPT ![t] = "None"]
            /\ UNCHANGED file_state
    /\ UNCHANGED <<is_recording, should_stop, audio_queue, output_file, write_thread,
                   file_data, wpc, wbuf, jt, cb_pc, cb_buf, ncb, nopen,
                   warnings, write_errors, pushed, dropped>>
    /\ UNCHANGED <<at_stop, session_of, notRecorder>>

\* stop_recording, lines 180-181: finally: self.output_file = None; the call returns
stop_recording_none(t) ==
    /\ pc[t] = "s_none"
    /\ output_file' = None
    /\ pc' = [pc EXCEPT ![t] = "idle"]
    /\ ret' = [ret EXCEPT ![t] = "None"]
    /\ UNCHANGED <<is_recording, should_stop, audio_queue, write_thread,
                   file_state, file_data, wpc, wbuf, jt, cb_pc, cb_buf, ncb, nopen,
                   warnings, write_errors, pushed, dropped>>
    /\ UNCHANGED <<at_stop, session_of, notRecorder>>

\* write_worker, line 185, left operand: while not self.should_stop.is_set() or ...
write_worker_loop(w) ==
    /\ wpc[w] = "loop"
    /\ wpc' = [wpc EXCEPT ![w] = IF should_stop THEN "empty" ELSE "get"]
    /\ UNCHANGED <<is_recording, should_stop, audio_queue, output_file, write_thread,
                   file_state, file_data, wbuf, pc, jt, cb_pc, cb_buf, ncb, nopen,
                   warnings, write_errors, pushed, dropped>>
    /\ UNCHANGED <<ret, at_stop, session_of, notRecorder>>

\* write_worker, line 185, right operand: ... or not self.audio_queue.empty();
\* the thread ends when the loop does
write_worker_empty(w) ==
    /\ wpc[w] = "empty"
    /\ wpc' = [wpc EXCEPT ![w] = IF audio_queue = <<>> THEN "dead" ELSE "get"]
    /\ UNCHANGED <<is_recording, should_stop, audio_queue, output_file, write_thread,
                   file_state, file_data, wbuf, pc, jt, cb_pc, cb_buf, ncb, nopen,
                   warnings, write_errors, pushed, dropped>>
    /\ UNCHANGED <<ret, at_stop, session_of, notRecorder>>

\* write_worker, lines 188, 194-195: audio_queue.get(timeout=0.1) returns the head,
\* or raises queue.Empty after 0.1 s and the loop continues
write_worker_get(w) ==
    /\ wpc[w] = "get"
    /\ IF audio_queue # <<>>
       THEN /\ wbuf' = [wbuf EXCEPT ![w] = Head(audio_queue)]
            /\ audio_queue' = Tail(audio_queue)
            /\ wpc' = [wpc EXCEPT ![w] = "check"]
       ELSE /\ wpc' = [wpc EXCEPT ![w] = "loop"]
            /\ UNCHANGED <<wbuf, audio_queue>>
    /\ UNCHANGED <<is_recording, should_stop, output_file, write_thread,
                   file_state, file_data, pc, jt, cb_pc, cb_buf, ncb, nopen,
                   warnings, write_errors, pushed, dropped>>
    /\ UNCHANGED <<ret, at_stop, session_of, notRecorder>>

\* write_worker, line 191: if self.output_file: (otherwise the block is let go)
write_worker_check(w) ==
    /\ wpc[w] = "check"
    /\ IF output_file # None
       THEN /\ wpc' = [wpc EXCEPT ![w] = "write"]
            /\ UNCHANGED wbuf
       ELSE /\ wpc' = [wpc EXCEPT ![w] = "loop"]
            /\ wbuf' = [wbuf EXCEPT ![w] = 0]
    /\ UNCHANGED <<is_recording, should_stop, audio_queue, output_file, write_thread,
                   file_state, file_data, pc, jt, cb_pc, cb_buf, ncb, nopen,
                   warnings, write_errors, pushed, dropped>>
    /\ UNCHANGED <<ret, at_stop, session_of, notRecorder>>

\* write_worker, lines 192, 196-198: self.output_file.write(audio_data) appends to the
\* open file; on None (AttributeError) or a closed file (SoundFileError) the exception
\* is printed and the loop is left
write_worker_write(w) ==
    /\ wpc[w] = "write"
    /\ IF output_file # None /\ file_state[output_file] = "open"
       THEN /\ file_data' = [file_data EXCEPT ![output_file] = Append(@, wbuf[w])]
            /\ wpc' = [wpc EXCEPT ![w] = "loop"]
            /\ UNCHANGED write_errors
       ELSE /\ write_errors' = write_errors + 1
            /\ wpc' = [wpc EXCEPT ![w] = "dead"]
            /\ UNCHANGED file_data
    /\ wbuf' = [wbuf EXCEPT ![w] = 0]
    /\ UNCHANGED <<is_recording, should_stop, audio_queue, output_file, write_thread,
                   file_state, pc, jt, cb_pc, cb_buf, ncb, nopen,
                   warnings, pushed, dropped>>
    /\ UNCHANGED <<ret, at_stop, session_of, notRecorder>>

\* write_worker, lines 192, 196-198: the write itself fails (disk full, I/O error)
write_worker_write_fails(w) ==
    /\ wpc[w] = "write"
    /\ write_errors' = write_errors + 1
    /\ wpc' = [wpc EXCEPT ![w] = "dead"]
    /\ wbuf' = [wbuf EXCEPT ![w] = 0]
    /\ UNCHANGED <<is_recording, should_stop, audio_queue, output_file, write_thread,
                   file_state, file_data, pc, jt, cb_pc, cb_buf, ncb, nopen,
                   warnings, pushed, dropped>>
    /\ UNCHANGED <<ret, at_stop, session_of, notRecorder>>

write_worker(w) ==
    \/ write_worker_loop(w)
    \/ write_worker_empty(w)
    \/ write_worker_get(w)
    \/ write_worker_check(w)
    \/ write_worker_write(w)
    \/ write_worker_write_fails(w)

\* start_recording after its first test
start_recording_body(t) ==
    \/ start_recording_open(t)
    \/ start_recording_open_fails(t)
    \/ start_recording_clear(t)
    \/ start_recording_clear_event(t)
    \/ start_recording_thread(t)
    \/ start_recording_set(t)

start_recording(t, sessions) ==
    \/ start_recording_call(t, sessions)
    \/ start_recording_body(t)

\* stop_recording after its first test
stop_recording_body(t) ==
    \/ stop_recording_clear(t)
    \/ stop_recording_set_event(t)
    \/ stop_recording_alive(t)
    \/ stop_recording_joined(t)
    \/ stop_recording_join_timeout(t)
    \/ stop_recording_close(t)
    \/ stop_recording_none(t)

stop_recording(t) ==
    \/ stop_recording_call(t)
    \/ stop_recording_body(t)

\* shutdown_callback, lines 85-88, entered once when the JACK server goes away: called
\* with (status, reason) it prints the reason and calls stop_recording, whose first
\* test is made here; called with any other number of arguments it would raise
\* TypeError before its first line
shutdown_callback_call ==
    /\ script = "jack_record"
    /\ ~jack_down
    /\ pc["jack"] = "idle"
    /\ jack_down' = TRUE
    /\ IF ShutdownArgs = sink_shutdown_params
       THEN /\ pc' = [pc EXCEPT !["jack"] = IF is_recording THEN "s_rec" ELSE "idle"]
            /\ ret' = IF is_recording THEN ret ELSE [ret EXCEPT !["jack"] = "None"]
       ELSE UNCHANGED <<pc, ret>>
    /\ UNCHANGED <<is_recording, should_stop, audio_queue, output_file, write_thread,
                   file_state, file_data, wpc, wbuf, jt, cb_pc, cb_buf, ncb, nopen,
                   warnings, write_errors, pushed, dropped, at_stop, session_of>>
    /\ UNCHANGED <<playVars, script, startVars, exampleVars>>

shutdown_callback ==
    \/ shutdown_callback_call
    \/ stop_recording_body("jack")

\* main, lines 299-303: the Enter command stops a recording or starts one
main_command(t, sessions) ==
    \/ is_recording /\ stop_recording_call(t)
    \/ ~is_recording /\ start_recording_call(t, sessions)

(* ------------------------- JackWavPlayer ------------------------------ *)

Min(a, b) == IF a <= b THEN a ELSE b

\* load_wav: sf.read gives an array of L frames of C samples; frame i (from 1) of
\* channel c is given the sample 10 * i + c, so that every sample is nonzero and
\* no two are equal
Source(L, C) == [i \in 1..L |-> [c \in 1..C |-> 10 * i + c]]

\* numpy: a[from:to, c - 1], frames counted from 0, the stop clipped to len(a)
Slice(a, c, from, to) ==
    LET stop == Min(to, Len(a))
    IN  IF from >= stop THEN <<>> ELSE [i \in 1..(stop - from) |-> a[from + i][c]]

\* numpy: fill(0) on n frames
Zeros(n) == [i \in 1..n |-> 0]

\* numpy: output_buffer[:m] = src broadcasts a src of one frame and raises ValueError
\* on any other length than m
CanAssign(m, src) == Len(src) = m \/ Len(src) = 1

Assigned(m, src) == IF Len(src) = m THEN src ELSE [i \in 1..m |-> src[1]]

\* __init__ and load_wav: the state after construction, for every WAV file of up to
\* MaxLen frames and MaxChannels channels; one output port per channel
PlayerInit ==
    /\ channels \in 1..MaxChannels
    /\ \E L \in 0..MaxLen : audio_data = Source(L, channels)
    /\ position = 0
    /\ playing = FALSE
    /\ out = [c \in 1..channels |-> <<>>]
    /\ p_pc = "idle"
    /\ frames = 0
    /\ frames_to_play = 0
    /\ ch = 0
    /\ lo = 0
    /\ tmp = 0
    /\ m_pc = "idle"
    /\ finished = 0
    /\ played = FALSE
    /\ ncalls = 0
    /\ ndone = 0
    /\ e_pos = 0
    /\ e_playing = FALSE
    /\ cmd_during = FALSE
    /\ play_during = FALSE
    /\ read_hi = 0
    /\ turned_on = FALSE
    /\ calls = <<>>
    /\ play_state = "none"
    /\ emitted = [c \in 1..channels |-> <<>>]

\* the play() request in force after a step of process_callback: a request that is
\* pending is running once the callback has read position
Seen(reads) == IF reads /\ play_state = "pending" THEN "running" ELSE play_state

\* the rates a JACK server may run at: that of the file, and another
ServerRates == {FileRate, 2 * FileRate}

\* start_jack has returned True on a server that runs at the rate of the file
Started ==
    /\ sample_rate = FileRate
    /\ samplerate = sample_rate
    /\ client_active = TRUE
    /\ j_pc = "done"
    /\ start_ret = "True"
    /\ rate_warnings = 0

\* start_jack has not been called yet, on a server that runs at any of the rates
NotStarted ==
    /\ sample_rate = FileRate
    /\ samplerate \in ServerRates
    /\ client_active = FALSE
    /\ j_pc = "idle"
    /\ start_ret = "no call"
    /\ rate_warnings = 0

\* start_jack, line 109: self.client.activate() succeeds, or raises
start_jack_activate ==
    /\ script = "jack_play"
    /\ j_pc = "idle"
    /\ \E ok \in BOOLEAN :
        /\ client_active' = ok
        /\ j_pc' = IF ok THEN "check" ELSE "except"
    /\ UNCHANGED <<sample_rate, samplerate, start_ret, rate_warnings>>
    /\ UNCHANGED <<recVars, playVars, script, jack_down, exampleVars>>

\* start_jack_return that refuses a server running at another rate
start_jack_return_strict ==
    /\ j_pc = "check"
    /\ start_ret' = IF samplerate # sample_rate THEN "False" ELSE "True"
    /\ j_pc' = "done"
    /\ UNCHANGED <<sample_rate, samplerate, client_active, rate_warnings>>
    /\ UNCHANGED <<recVars, playVars, script, jack_down, exampleVars>>

\* start_jack, lines 110-117: a warning is printed when the rates differ; return True
start_jack_return ==
    /\ j_pc = "check"
    /\ rate_warnings' = IF samplerate # sample_rate
                        THEN rate_warnings + 1 ELSE rate_warnings
    /\ start_ret' = "True"
    /\ j_pc' = "done"
    /\ UNCHANGED <<sample_rate, samplerate, client_active>>
    /\ UNCHANGED <<recVars, playVars, script, jack_down, exampleVars>>

\* start_jack, lines 118-120: except Exception: return False
start_jack_except ==
    /\ j_pc = "except"
    /\ start_ret' = "False"
    /\ j_pc' = "done"
    /\ UNCHANGED <<sample_rate, samplerate, client_active, rate_warnings>>
    /\ UNCHANGED <<recVars, playVars, script, jack_down, exampleVars>>

start_jack ==
    \/ start_jack_activate
    \/ start_jack_return
    \/ start_jack_except

\* process_callback, lines 60-64: JACK asks for n frames; silence on every port when
\* not playing
player_callback_check ==
    /\ script = "jack_play"
    /\ client_active
    /\ p_pc = "idle"
    /\ ~jack_down
    /\ ncalls < MaxCalls
    /\ \E n \in 1..MaxFrames :
        /\ frames' = n
        /\ IF playing
           THEN /\ p_pc' = "avail"
                /\ UNCHANGED <<out, ndone>>
           ELSE /\ out' = [c \in 1..channels |-> Zeros(n)]
                /\ ndone' = ndone + 1
                /\ UNCHANGED p_pc
    /\ ncalls' = ncalls + 1
    /\ e_pos' = position
    /\ e_playing' = playing
    /\ cmd_during' = FALSE
    /\ play_during' = FALSE
    /\ UNCHANGED <<audio_data, channels, position, playing, frames_to_play, ch, lo,
                   tmp, m_pc, finished, read_hi>>
    /\ calls' = <<>>
    /\ UNCHANGED <<played, emitted, play_state, turned_on, notPlayer>>

\* frames_available that forgets the cursor
frames_available_whole(pos) == Len(audio_data)

\* frames_available that starts over when the source is used up
frames_available_loop(pos) ==
    IF pos >= Len(audio_data) THEN Len(audio_data) ELSE Len(audio_data) - pos

\* lines 67-68: frames_to_play = min(frames, len(audio_data) - position)
frames_available(pos) == Len(audio_data) - pos

player_callback_avail ==
    /\ p_pc = "avail"
    /\ frames_to_play' = Min(frames, frames_available(position))
    /\ ch' = 1
    /\ p_pc' = "copy"
    /\ turned_on' = FALSE
    /\ play_state' = Seen(TRUE)
    /\ UNCHANGED <<audio_data, channels, position, playing, out, frames, lo, tmp,
                   m_pc, finished, ncalls, ndone, e_pos, e_playing, cmd_during,
                   play_during, read_hi>>
    /\ calls' = <<>>
    /\ UNCHANGED <<played, emitted, notPlayer>>

\* lines 71-74, 78, 89-91: the next port; with nothing to play it is filled with
\* zeros, otherwise the slice start self.position is read
player_callback_copy ==
    /\ p_pc = "copy"
    /\ IF ch > channels
       THEN /\ p_pc' = "add"
            /\ UNCHANGED <<out, ch, lo>>
       ELSE IF frames_to_play > 0
       THEN /\ lo' = position
            /\ p_pc' = "slice"
            /\ UNCHANGED <<out, ch>>
       ELSE /\ out' = [out EXCEPT ![ch] = Zeros(frames)]
            /\ ch' = ch + 1
            /\ UNCHANGED <<p_pc, lo>>
    /\ UNCHANGED <<audio_data, channels, position, playing, frames, frames_to_play,
                   tmp, m_pc, finished, ncalls, ndone, e_pos, e_playing, cmd_during,
                   play_during, read_hi>>
    /\ play_state' = Seen(ch <= channels /\ frames_to_play > 0)
    /\ calls' = <<>>
    /\ UNCHANGED <<played, emitted, turned_on, notPlayer>>

\* lines 77-79, 87-88: the slice stop self.position + frames_to_play is read, the
\* slice is assigned to output_buffer[:frames_to_play] and the rest is zeroed; a
\* slice of another length raises ValueError, which ends the client's processing
player_callback_slice ==
    /\ p_pc = "slice"
    /\ LET src == Slice(audio_data, ch, lo, position + frames_to_play)
       IN  /\ read_hi' = IF position + frames_to_play > read_hi
                         THEN position + frames_to_play ELSE read_hi
           /\ IF CanAssign(frames_to_play, src)
              THEN /\ out' = [out EXCEPT ![ch] = Assigned(frames_to_play, src)
                                             \o Zeros(frames - frames_to_play)]
                   /\ emitted' = [emitted EXCEPT
                                     ![ch] = @ \o Assigned(frames_to_play, src)]
                   /\ ch' = ch + 1
                   /\ p_pc' = "copy"
                   /\ UNCHANGED ndone
              ELSE /\ p_pc' = "failed"
                   /\ ndone' = ndone + 1
                   /\ UNCHANGED <<out, ch, emitted>>
    /\ UNCHANGED <<audio_data, channels, position, playing, frames, frames_to_play,
                   lo, tmp, m_pc, finished, ncalls, e_pos, e_playing, cmd_during,
                   play_during>>
    /\ play_state' = Seen(TRUE)
    /\ calls' = <<>>
    /\ UNCHANGED <<played, turned_on, notPlayer>>

\* line 94, self.position += frames_to_play: the read
player_callback_add ==
    /\ p_pc = "add"
    /\ tmp' = position
    /\ p_pc' = "store"
    /\ UNCHANGED <<audio_data, channels, position, playing, out, frames,
                   frames_to_play, ch, lo, m_pc, finished, ncalls, ndone, e_pos,
                   e_playing, cmd_during, play_during, read_hi>>
    /\ play_state' = Seen(TRUE)
    /\ calls' = <<>>
    /\ UNCHANGED <<played, emitted, turned_on, notPlayer>>

\* player_callback_store advancing by the whole block
player_callback_store_block ==
    /\ p_pc = "store"
    /\ position' = tmp + frames
    /\ p_pc' = "end"
    /\ UNCHANGED <<audio_data, channels, playing, out, frames, frames_to_play, ch,
                   lo, tmp, m_pc, finished, ncalls, ndone, e_pos, e_playing,
                   cmd_during, play_during, read_hi>>
    /\ calls' = <<>>
    /\ UNCHANGED <<played, emitted, play_state, turned_on, notPlayer>>

\* line 94, self.position += frames_to_play: the write
player_callback_store ==
    /\ p_pc = "store"
    /\ position' = tmp + frames_to_play
    /\ p_pc' = "end"
    /\ UNCHANGED <<audio_data, channels, playing, out, frames, frames_to_play, ch,
                   lo, tmp, m_pc, finished, ncalls, ndone, e_pos, e_playing,
                   cmd_during, play_during, read_hi>>
    /\ calls' = <<>>
    /\ UNCHANGED <<played, emitted, play_state, turned_on, notPlayer>>

\* line 97: if self.position >= len(self.audio_data)
player_callback_end ==
    /\ p_pc = "end"
    /\ IF position >= Len(audio_data)
       THEN /\ p_pc' = "finish"
            /\ UNCHANGED ndone
       ELSE /\ p_pc' = "idle"
            /\ ndone' = ndone + 1
    /\ UNCHANGED <<audio_data, channels, position, playing, out, frames,
                   frames_to_play, ch, lo, tmp, m_pc, finished, ncalls, e_pos,
                   e_playing, cmd_during, play_during, read_hi>>
    /\ play_state' = Seen(TRUE)
    /\ calls' = <<>>
    /\ UNCHANGED <<played, emitted, turned_on, notPlayer>>

\* lines 98-99: self.playing = False; print("Playback finished")
player_callback_finish ==
    /\ p_pc = "finish"
    /\ playing' = FALSE
    /\ finished' = finished + 1
    /\ p_pc' = "idle"
    /\ ndone' = ndone + 1
    /\ play_state' = "none"
    /\ UNCHANGED <<audio_data, channels, position, out, frames, frames_to_play, ch,
                   lo, tmp, m_pc, ncalls, e_pos, e_playing, cmd_during, play_during,
                   read_hi>>
    /\ calls' = <<>>
    /\ UNCHANGED <<played, emitted, turned_on, notPlayer>>

player_callback ==
    \/ player_callback_check
    \/ player_callback_avail
    \/ player_callback_copy
    \/ player_callback_slice
    \/ player_callback_add
    \/ player_callback_store
    \/ player_callback_end
    \/ player_callback_finish

\* the methods the command loop has called since the last step of process_callback,
\* the last two of them, with m the one called now
Called(m) == IF calls = <<>> THEN <<m>> ELSE <<calls[Len(calls)], m>>

\* a process cycle is under way
in_cycle == p_pc \notin {"idle", "failed"}

\* play_reset that leaves the cursor of a running playback alone
play_reset_idempotent ==
    /\ script = "jack_play"
    /\ m_pc = "idle"
    /\ position' = IF playing THEN position ELSE 0
    /\ m_pc' = "play"
    /\ finished' = 0
    /\ played' = TRUE
    /\ emitted' = [c \in 1..channels |-> <<>>]
    /\ cmd_during' = (cmd_during \/ in_cycle)
    /\ play_during' = (play_during \/ in_cycle)
    /\ UNCHANGED <<audio_data, channels, playing, out, p_pc, frames, frames_to_play,
                   ch, lo, tmp, ncalls, ndone, e_pos, e_playing, read_hi>>
    /\ calls' = Called("play")
    /\ play_state' = "none"
    /\ UNCHANGED <<turned_on, notPlayer>>

\* play, line 124: self.position = 0
play_reset ==
    /\ script = "jack_play"
    /\ m_pc = "idle"
    /\ position' = 0
    /\ m_pc' = "play"
    /\ finished' = 0
    /\ played' = TRUE
    /\ emitted' = [c \in 1..channels |-> <<>>]
    /\ cmd_during' = (cmd_during \/ in_cycle)
    /\ play_during' = (play_during \/ in_cycle)
    /\ UNCHANGED <<audio_data, channels, playing, out, p_pc, frames, frames_to_play,
                   ch, lo, tmp, ncalls, ndone, e_pos, e_playing, read_hi>>
    /\ calls' = Called("play")
    /\ play_state' = "none"
    /\ UNCHANGED <<turned_on, notPlayer>>

\* play, line 125: self.playing = True
play_set ==
    /\ m_pc = "play"
    /\ playing' = TRUE
    /\ m_pc' = "idle"
    /\ cmd_during' = (cmd_during \/ in_cycle)
    /\ play_during' = (play_during \/ in_cycle)
    /\ turned_on' = (turned_on \/ ~playing)
    /\ play_state' = "pending"
    /\ UNCHANGED <<audio_data, channels, position, out, p_pc, frames, frames_to_play,
                   ch, lo, tmp, finished, ncalls, ndone, e_pos, e_playing, read_hi>>
    /\ UNCHANGED <<played, emitted, calls, notPlayer>>

play == play_reset \/ play_set

\* stop, line 130: self.playing = False
stop ==
    /\ script = "jack_play"
    /\ m_pc = "idle"
    /\ playing' = FALSE
    /\ cmd_during' = (cmd_during \/ in_cycle)
    /\ play_state' = "none"
    /\ UNCHANGED <<audio_data, channels, position, out, p_pc, frames, frames_to_play,
                   ch, lo, tmp, m_pc, finished, ncalls, ndone, e_pos, e_playing,
                   play_during, read_hi>>
    /\ calls' = Called("stop")
    /\ UNCHANGED <<played, emitted, turned_on, notPlayer>>

\* pause that also takes the cursor back to the first frame
pause_rewind ==
    /\ script = "jack_play"
    /\ m_pc = "idle"
    /\ playing' = FALSE
    /\ position' = 0
    /\ cmd_during' = (cmd_during \/ in_cycle)
    /\ calls' = Called("pause")
    /\ play_state' = "none"
    /\ UNCHANGED <<audio_data, channels, out, p_pc, frames, frames_to_play,
                   ch, lo, tmp, m_pc, finished, ncalls, ndone, e_pos, e_playing,
                   play_during, read_hi>>
    /\ UNCHANGED <<played, emitted, turned_on, notPlayer>>

\* pause, line 135: self.playing = False
pause ==
    /\ script = "jack_play"
    /\ m_pc = "idle"
    /\ playing' = FALSE
    /\ cmd_during' = (cmd_during \/ in_cycle)
    /\ calls' = Called("pause")
    /\ play_state' = "none"
    /\ UNCHANGED <<audio_data, channels, position, out, p_pc, frames, frames_to_play,
                   ch, lo, tmp, m_pc, finished, ncalls, ndone, e_pos, e_playing,
                   play_during, read_hi>>
    /\ UNCHANGED <<played, emitted, turned_on, notPlayer>>

\* resume that starts over from the first frame
resume_rewind ==
    /\ script = "jack_play"
    /\ m_pc = "idle"
    /\ playing' = TRUE
    /\ position' = 0
    /\ cmd_during' = (cmd_during \/ in_cycle)
    /\ turned_on' = (turned_on \/ ~playing)
    /\ calls' = Called("resume")
    /\ UNCHANGED <<audio_data, channels, out, p_pc, frames, frames_to_play,
                   ch, lo, tmp, m_pc, finished, ncalls, ndone, e_pos, e_playing,
                   play_during, read_hi>>
    /\ UNCHANGED <<played, emitted, play_state, notPlayer>>

\* resume, line 140: self.playing = True
resume ==
    /\ script = "jack_play"
    /\ m_pc = "idle"
    /\ playing' = TRUE
    /\ cmd_during' = (cmd_during \/ in_cycle)
    /\ turned_on' = (turned_on \/ ~playing)
    /\ UNCHANGED <<audio_data, channels, position, out, p_pc, frames, frames_to_play,
                   ch, lo, tmp, m_pc, finished, ncalls, ndone, e_pos, e_playing,
                   play_during, read_hi>>
    /\ calls' = Called("resume")
    /\ UNCHANGED <<played, emitted, play_state, notPlayer>>

\* main, lines 170-171, 199 and 206-207: play() is called once start_jack has
\* returned True, and again at each 'p' command
main_play == start_ret = "True" /\ play

\* main, line 199: the play() the script makes by itself before it reads a command
first_play ==
    \/ ~played /\ play_reset
    \/ play_set

\* pause() and resume() called once play() has been: in the script no command is read
\* before line 199
later_pause == played /\ pause

later_resume == played /\ resume

\* main, lines 210-214: the space command pauses a running playback and resumes one
\* that is not running
space_command ==
    \/ playing /\ pause
    \/ ~playing /\ resume

\* shutdown_callback, lines 101-104, entered once when the JACK server goes away:
\* self.playing = False, unless the call itself fails: the method takes no argument
\* besides self, and a call with more raises TypeError before the first line
player_shutdown_callback ==
    /\ script = "jack_play"
    /\ ~jack_down
    /\ jack_down' = TRUE
    /\ playing' = IF ShutdownArgs = player_shutdown_params THEN FALSE ELSE playing
    /\ UNCHANGED <<audio_data, channels, position, out, p_pc, frames, frames_to_play,
                   ch, lo, tmp, m_pc, finished, played, emitted, play_state, ncalls, ndone, e_pos,
                   e_playing, cmd_during, play_during, read_hi, turned_on, calls>>
    /\ UNCHANGED <<recVars, script, startVars, exampleVars>>

\* the command loop of the recorder never constructs a player
NoPlayer ==
    /\ channels = 1
    /\ audio_data = <<>>
    /\ position = 0
    /\ playing = FALSE
    /\ out = [c \in 1..channels |-> <<>>]
    /\ p_pc = "idle"
    /\ frames = 0
    /\ frames_to_play = 0
    /\ ch = 0
    /\ lo = 0
    /\ tmp = 0
    /\ m_pc = "idle"
    /\ finished = 0
    /\ played = FALSE
    /\ ncalls = 0
    /\ ndone = 0
    /\ e_pos = 0
    /\ e_playing = FALSE
    /\ cmd_during = FALSE
    /\ play_during = FALSE
    /\ read_hi = 0
    /\ turned_on = FALSE
    /\ calls = <<>>
    /\ play_state = "none"
    /\ emitted = [c \in 1..channels |-> <<>>]

(* ------------------------- example programs --------------------------- *)

\* what the steps of the example programs leave alone
notExample == <<recVars, playVars, script, jack_down, startVars>>

\* np.arange(frames) + phase: the frames integers from phase on
arange_from(f, ph) == [i \in 1..f |-> ph + (i - 1)]

\* AudioSender.__init__, lines 8-25: phase is 0.0, a float that holds every integer
\* below 2^53 exactly
SenderInit ==
    /\ phase = 0
    /\ samples = <<>>
    /\ frames_sum = 0
    /\ indices = <<>>
    /\ sender_calls = 0

\* process_audio that restarts the wave at every block
sender_process_audio_restart(f) ==
    /\ script = "Jack_Transmitter"
    /\ sender_calls < MaxCycles
    /\ samples' = arange_from(f, 0)
    /\ phase' = phase + f
    /\ indices' = indices \o samples'
    /\ frames_sum' = frames_sum + f
    /\ sender_calls' = sender_calls + 1
    /\ UNCHANGED <<generatorVars, sineVars, receiverVars, notExample>>

\* AudioSender.process_audio, lines 27-37, called by the JACK process thread with the
\* block size of the cycle: samples = np.arange(frames) + self.phase, and
\* self.phase += frames; the block written to the port is a function of samples
sender_process_audio(f) ==
    /\ script = "Jack_Transmitter"
    /\ sender_calls < MaxCycles
    /\ samples' = arange_from(f, phase)
    /\ phase' = phase + f
    /\ indices' = indices \o samples'
    /\ frames_sum' = frames_sum + f
    /\ sender_calls' = sender_calls + 1
    /\ UNCHANGED <<generatorVars, sineVars, receiverVars, notExample>>

\* SineWaveGenerator.__init__, lines 7-16
GeneratorInit ==
    /\ g_phase = 0
    /\ is_playing = FALSE
    /\ stream = None
    /\ g_samples = <<>>
    /\ open_streams = {}
    /\ g_pc = "idle"
    /\ g_frames_sum = 0
    /\ g_indices = <<>>
    /\ g_calls = 0
    /\ nstreams = 0
    /\ g_cmds = 0
    /\ g_last = <<"none", FALSE>>

\* SineWaveGenerator.callback, lines 21-31, called by the thread of an open stream
\* with the frame count of the buffer to fill
generator_callback(f) ==
    /\ script = "audio_example"
    /\ open_streams # {}
    /\ g_calls < MaxCycles
    /\ g_samples' = arange_from(f, g_phase)
    /\ g_phase' = g_phase + f
    /\ g_indices' = g_indices \o g_samples'
    /\ g_frames_sum' = g_frames_sum + f
    /\ g_calls' = g_calls + 1
    /\ UNCHANGED <<is_playing, stream, open_streams, g_pc, nstreams, g_cmds, g_last>>
    /\ UNCHANGED <<senderVars, sineVars, receiverVars, notExample>>

\* start that opens a stream whatever is_playing is
generator_start_always ==
    /\ script = "audio_example"
    /\ g_pc = "idle"
    /\ g_cmds < MaxCmds
    /\ g_cmds' = g_cmds + 1
    /\ g_last' = <<"start", is_playing>>
    /\ g_pc' = "open"
    /\ UNCHANGED <<g_phase, is_playing, stream, g_samples, open_streams, g_frames_sum,
                   g_indices, g_calls, nstreams>>
    /\ UNCHANGED <<senderVars, sineVars, receiverVars, notExample>>

\* start, line 39: if not self.is_playing, else return
generator_start ==
    /\ script = "audio_example"
    /\ g_pc = "idle"
    /\ g_cmds < MaxCmds
    /\ g_cmds' = g_cmds + 1
    /\ g_last' = <<"start", is_playing>>
    /\ g_pc' = IF is_playing THEN "idle" ELSE "open"
    /\ UNCHANGED <<g_phase, is_playing, stream, g_samples, open_streams, g_frames_sum,
                   g_indices, g_calls, nstreams>>
    /\ UNCHANGED <<senderVars, sineVars, receiverVars, notExample>>

\* start, lines 40-47: self.stream = self.p.open(...), which opens and starts a new
\* stream
generator_start_open ==
    /\ script = "audio_example"
    /\ g_pc = "open"
    /\ nstreams' = nstreams + 1
    /\ stream' = nstreams'
    /\ open_streams' = open_streams \cup {nstreams'}
    /\ g_pc' = "set"
    /\ UNCHANGED <<g_phase, is_playing, g_samples, g_frames_sum, g_indices, g_calls,
                   g_cmds, g_last>>
    /\ UNCHANGED <<senderVars, sineVars, receiverVars, notExample>>

\* start, lines 40-47: self.p.open(...) raises (no output device): start is left with
\* nothing assigned
generator_start_open_fails ==
    /\ script = "audio_example"
    /\ g_pc = "open"
    /\ g_pc' = "idle"
    /\ UNCHANGED <<g_phase, is_playing, stream, g_samples, open_streams, g_frames_sum,
                   g_indices, g_calls, nstreams, g_cmds, g_last>>
    /\ UNCHANGED <<senderVars, sineVars, receiverVars, notExample>>

\* start, lines 48-49: self.is_playing = True; start_stream() on a stream that is
\* running returns at once
generator_start_set ==
    /\ script = "audio_example"
    /\ g_pc = "set"
    /\ is_playing' = TRUE
    /\ g_pc' = "idle"
    /\ UNCHANGED <<g_phase, stream, g_samples, open_streams, g_frames_sum, g_indices,
                   g_calls, nstreams, g_cmds, g_last>>
    /\ UNCHANGED <<senderVars, sineVars, receiverVars, notExample>>

\* stop, line 52: if self.is_playing, else return
generator_stop ==
    /\ script = "audio_example"
    /\ g_pc = "idle"
    /\ g_cmds < MaxCmds
    /\ g_cmds' = g_cmds + 1
    /\ g_last' = <<"stop", is_playing>>
    /\ g_pc' = IF is_playing THEN "close" ELSE "idle"
    /\ UNCHANGED <<g_phase, is_playing, stream, g_samples, open_streams, g_frames_sum,
                   g_indices, g_calls, nstreams>>
    /\ UNCHANGED <<senderVars, sineVars, receiverVars, notExample>>

\* stop, lines 53-54: self.stream.stop_stream(); self.stream.close()
generator_stop_close ==
    /\ script = "audio_example"
    /\ g_pc = "close"
    /\ open_streams' = open_streams \ {stream}
    /\ g_pc' = "clear"
    /\ UNCHANGED <<g_phase, is_playing, stream, g_samples, g_frames_sum, g_indices,
                   g_calls, nstreams, g_cmds, g_last>>
    /\ UNCHANGED <<senderVars, sineVars, receiverVars, notExample>>

\* stop, line 55: self.is_playing = False
generator_stop_clear ==
    /\ script = "audio_example"
    /\ g_pc = "clear"
    /\ is_playing' = FALSE
    /\ g_pc' = "idle"
    /\ UNCHANGED <<g_phase, stream, g_samples, open_streams, g_frames_sum, g_indices,
                   g_calls, nstreams, g_cmds, g_last>>
    /\ UNCHANGED <<senderVars, sineVars, receiverVars, notExample>>

\* start() and stop(), each from its first line to its return
generator_start_call ==
    \/ generator_start
    \/ generator_start_open
    \/ generator_start_open_fails
    \/ generator_start_set

generator_stop_call ==
    \/ generator_stop
    \/ generator_stop_close
    \/ generator_stop_clear

\* wav_to_jack.py, lines 11-12: sine_wave has int(duration * samplerate) samples; the
\* sample at index i (from 0) is written i here
sine_len == sine_duration * sine_samplerate

\* sine_wave[lo:hi], a numpy slice: the samples at lo, lo+1, ... below hi and below
\* the end of the array; empty if there are none
sine_slice(from, to) ==
    LET end == IF to < sine_len THEN to ELSE sine_len
    IN  IF end > from THEN [i \in 1..(end - from) |-> from + (i - 1)] ELSE <<>>

\* what a port buffer holds that process has not written in this cycle
Stale == -1

\* the values client.frame_time, the server's running frame count, may show: around
\* the start, the end and the second end of sine_wave
FrameTimes ==
    {0, 1, sine_len - MaxFrames - 1, sine_len - MaxFrames, sine_len - 1, sine_len,
     sine_len + 1, 2 * sine_len - 1}

\* wav_to_jack.py, lines 15-18 and 32: the client is active and process has not run
SineInit ==
    /\ out_buffer = <<>>
    /\ w_pc = "run"
    /\ frame_time = 0
    /\ w_frames = 0
    /\ w_calls = 0

\* process, lines 21-29, called by the JACK process thread with the block size of the
\* cycle: client.frame_time is read twice, and the time may have moved on by a frame
\* in between; the slice is assigned to the whole port buffer of frames samples, which
\* raises ValueError when the lengths differ, and a callback that raises is not called
\* again
process(f) ==
    /\ script = "wav_to_jack"
    /\ w_pc = "run"
    /\ w_calls < MaxCycles
    /\ \E t1 \in FrameTimes : \E t2 \in {t1, t1 + 1} :
          LET block == sine_slice(t1 % sine_len, (t2 % sine_len) + f)
          IN  /\ frame_time' = t1
              /\ IF Len(block) = f
                    THEN /\ out_buffer' = block
                         /\ w_pc' = "run"
                    ELSE /\ out_buffer' = [i \in 1..f |-> Stale]
                         /\ w_pc' = "failed"
    /\ w_frames' = f
    /\ w_calls' = w_calls + 1
    /\ UNCHANGED <<senderVars, generatorVars, receiverVars, notExample>>

\* AudioReceiver.__init__, lines 17-34: the buffer is empty and block_counter is not
\* an attribute yet
ReceiverInit ==
    /\ buffer = <<>>
    /\ block_counter = <<>>
    /\ r_out = <<>>
    /\ largest = 0
    /\ r_calls = 0

\* the block sizes of the server: the block size may be changed while the client runs
Blocksizes == {MaxBlocksize \div 2, MaxBlocksize}

\* input_port.get_array() in the k-th cycle: frames samples; a sample is written as
\* twice the number of its cycle, so that the gain of 0.5 gives a whole number
input_data(k, f) == [i \in 1..f |-> 2 * k]

\* AudioReceiver.gain, line 27: 0.5
times_gain(x) == x \div 2

\* process_audio that extends the buffer whatever its length
receiver_process_audio_unbounded(f) ==
    /\ script = "Jack_Receiver"
    /\ r_calls < MaxCycles
    /\ LET data == input_data(r_calls + 1, f)
       IN  /\ buffer' = buffer \o data
           /\ r_out' = [i \in 1..f |-> times_gain(data[i])]
    /\ block_counter' = IF block_counter = <<>> THEN <<0>> ELSE <<block_counter[1] + 1>>
    /\ largest' = IF f > largest THEN f ELSE largest
    /\ r_calls' = r_calls + 1
    /\ UNCHANGED <<senderVars, generatorVars, sineVars, notExample>>

\* AudioReceiver.process_audio, lines 36-62, called by the JACK process thread with
\* the block size of the cycle: the input is appended to buffer while buffer has fewer
\* than 1000 samples, the input times gain goes to the output port, and block_counter
\* is created at 0 or incremented
receiver_process_audio(f) ==
    /\ script = "Jack_Receiver"
    /\ r_calls < MaxCycles
    /\ LET data == input_data(r_calls + 1, f)
       IN  /\ buffer' = IF Len(buffer) < buffer_limit THEN buffer \o data ELSE buffer
           /\ r_out' = [i \in 1..f |-> times_gain(data[i])]
    /\ block_counter' = IF block_counter = <<>> THEN <<0>> ELSE <<block_counter[1] + 1>>
    /\ largest' = IF f > largest THEN f ELSE largest
    /\ r_calls' = r_calls + 1
    /\ UNCHANGED <<senderVars, generatorVars, sineVars, notExample>>

\* every example program as constructed
ExamplesInit == SenderInit /\ GeneratorInit /\ SineInit /\ ReceiverInit

(* ------------------------- specifications ----------------------------- *)

Init ==
    /\ RecInit /\ NoPlayer /\ script = "jack_record" /\ jack_down = FALSE /\ Started
    /\ ExamplesInit

\* The recorder: commands on the main thread, the process thread, the writer threads
Next ==
    \/ start_recording("main", MaxSessions)
    \/ stop_recording("main")
    \/ process_callback_check(MaxCallbacks)
    \/ process_callback_put
    \/ \E w \in Handles : write_worker(w)

Spec == Init /\ [][Next]_vars

\* One recording session of the command loop with enough blocks to fill the queue
NextFill ==
    \/ main_command("main", 1)
    \/ start_recording_body("main")
    \/ stop_recording_body("main")
    \/ process_callback_check(QueueMaxsize + MaxOverrun)
    \/ process_callback_put
    \/ \E w \in Handles : write_worker(w)

SpecFill == Init /\ [][NextFill]_vars

\* The player: the command loop on the main thread and the JACK process thread
NextPlay ==
    \/ player_callback
    \/ play
    \/ stop
    \/ pause
    \/ resume

InitPlay ==
    /\ RecInit /\ PlayerInit /\ script = "jack_play" /\ jack_down = FALSE /\ Started
    /\ ExamplesInit

SpecPlay == InitPlay /\ [][NextPlay]_vars

\* The recorder under fair scheduling: a thread that can take a step of the writer
\* loop, of a start_recording or stop_recording call it is in, or of the put of a
\* process_callback it is in, eventually takes it.  Commands and process cycles are
\* under no obligation to come.
Fairness ==
    /\ \A w \in Handles : WF_vars(write_worker(w))
    /\ WF_vars(start_recording_body("main"))
    /\ WF_vars(stop_recording_body("main"))
    /\ WF_vars(process_callback_put)

SpecLive == Init /\ [][Next]_vars /\ Fairness

\* Either script, each with the shutdown of the JACK server
InitScripts == Init \/ InitPlay

NextScripts ==
    \/ start_recording("main", MaxSessions)
    \/ stop_recording("main")
    \/ process_callback_check(MaxCallbacks)
    \/ process_callback_put
    \/ \E w \in Handles : write_worker(w)
    \/ shutdown_callback
    \/ player_callback
    \/ play
    \/ stop
    \/ pause
    \/ resume
    \/ player_shutdown_callback

SpecScripts == InitScripts /\ [][NextScripts]_vars

\* The command loops of the two scripts: the recorder's Enter command, the player's
\* 'p', 's' and space commands, and the threads they run beside
NextLoops ==
    \/ main_command("main", MaxSessions)
    \/ start_recording_body("main")
    \/ stop_recording_body("main")
    \/ process_callback_check(MaxCallbacks)
    \/ process_callback_put
    \/ \E w \in Handles : write_worker(w)
    \/ player_callback
    \/ play
    \/ stop
    \/ space_command

SpecLoops == InitScripts /\ [][NextLoops]_vars

\* The player from its construction: start_jack on a server of any rate, then play()
\* and the process cycles
InitStart ==
    /\ RecInit /\ PlayerInit /\ script = "jack_play" /\ jack_down = FALSE /\ NotStarted
    /\ ExamplesInit

NextStart ==
    \/ start_jack
    \/ player_callback
    \/ main_play

SpecStart == InitStart /\ [][NextStart]_vars

\* One playback: the play() of line 199, then pause() and resume() in any order beside
\* the process cycles
NextPause ==
    \/ first_play
    \/ player_callback
    \/ later_pause
    \/ later_resume

SpecPause == InitPlay /\ [][NextPause]_vars

\* The example programs, one per process: the sine sender, the PyAudio sine generator
\* with its start() and stop(), the looping sine player, and the receiver
ExampleScripts == {"Jack_Transmitter", "audio_example", "wav_to_jack", "Jack_Receiver"}

InitExamples ==
    /\ RecInit /\ NoPlayer /\ jack_down = FALSE /\ Started
    /\ script \in ExampleScripts
    /\ ExamplesInit

NextExamples ==
    \/ \E f \in 1..MaxFrames : sender_process_audio(f)
    \/ \E f \in 1..MaxFrames : generator_callback(f)
    \/ generator_start_call
    \/ generator_stop_call
    \/ \E f \in 1..MaxFrames : process(f)
    \/ \E f \in Blocksizes : receiver_process_audio(f)

SpecExamples == InitExamples /\ [][NextExamples]_vars

(* --------------------------- properties ------------------------------- *)

IsPrefix(a, b) == Len(a) <= Len(b) /\ SubSeq(b, 1, Len(a)) = a

Range(a) == {a[i] : i \in 1..Len(a)}

\* stop_recording returns to its caller in this step, having stopped a recording
StopReturns(t) ==
    /\ pc[t] \in {"s_close", "s_none"}
    /\ pc'[t] = "idle"

\* every block written to any file so far
Written == UNION {Range(file_data[h]) : h \in Handles}

\* C1: the blocks written to the output file of each recording session are, at every
\* moment, a prefix of the blocks process_callback put on audio_queue during that
\* session (after start_recording emptied the queue): same order, none twice, none
\* that was never put.
C1_WrittenIsPrefixOfPushed ==
    \A h \in Handles : IsPrefix(file_data[h], pushed[h])

\* C2: when stop_recording returns, no write has failed and the writer thread has
\* ended, every block that was put
\* on audio_queue during the session is in the output file and audio_queue is empty.
C2_NoLossOnCleanStop ==
    [][StopReturns("main") /\ write_errors' = 0 /\ (\A w \in Handles : ~is_alive(w)') =>
          /\ audio_queue' = <<>>
          /\ \A h \in Handles : Range(pushed'[h]) \subseteq Range(file_data'[h])]_vars

\* C3: whenever the recorder is Idle (is_recording is False and no start_recording or
\* stop_recording call is in progress), no write_worker thread is alive and no output
\* file is open.
C3_IdleHasNoThreadNoOpenFile ==
    (~is_recording /\ \A t \in Callers : pc[t] = "idle") =>
        /\ \A w \in Handles : ~is_alive(w)
        /\ \A h \in Handles : file_state[h] # "open"

\* the JackAudioSink attributes that change after __init__
sink == <<is_recording, should_stop, audio_queue, output_file, write_thread>>

\* process_callback meets a full queue in this step
PutOnFull == cb_pc = "put" /\ cb_pc' = "idle" /\ Len(audio_queue) = QueueMaxsize

\* process_callback meets a queue with room in this step
PutWithRoom == cb_pc = "put" /\ cb_pc' = "idle" /\ Len(audio_queue) < QueueMaxsize

\* the blocks the writer threads hold
InHand == {wbuf[w] : w \in Handles} \ {0}

\* C4: a process_callback that finds audio_queue full does not wait (its put is
\* enabled whatever the queue holds); the block is discarded and never reaches the
\* queue, a writer or a file; the queue and is_recording are as they were; and a
\* later callback that finds room appends its block.
C4_FullQueueDropsAndContinues ==
    /\ [](cb_pc = "put" => ENABLED process_callback_put)
    /\ [](dropped \cap (Range(audio_queue) \cup InHand \cup Written) = {})
    /\ [][PutOnFull => /\ cb_buf \in dropped'
                       /\ sink' = sink
                       /\ file_data' = file_data]_vars
    /\ [][PutWithRoom => /\ audio_queue' = Append(audio_queue, cb_buf)
                         /\ dropped' = dropped]_vars

\* a block was dropped on a full queue, recording went on, and a later block was put
C4_Witness ==
    /\ is_recording
    /\ \E d \in dropped : \E i \in 1..Len(audio_queue) : audio_queue[i] > d

C6_QueueBounded == Len(audio_queue) <= QueueMaxsize

\* the queue holds 100 blocks while a writer thread is running
C6_Witness == Len(audio_queue) = QueueMaxsize /\ \E w \in Handles : is_alive(w)

\* a process cycle of the player ends in this step (by returning or by raising)
CycleEnds == ndone' = ndone + 1

\* what a cycle of n frames that starts at cursor p must leave in the port of channel c
Expected(c, p, n) ==
    [i \in 1..n |-> IF p + i <= Len(audio_data) THEN audio_data[p + i][c] ELSE 0]

\* C7: a process_callback of n frames that starts while playing, with no command
\* running during it, returns with every port holding the m = min(n, len - position)
\* frames from the cursor followed by n - m zeros, the cursor advanced by exactly m,
\* and playing False exactly when the cursor has reached the end.
C7_CycleWritesFramesThenSilence ==
    [][CycleEnds /\ e_playing' /\ ~cmd_during' =>
          LET n == frames'
              m == Min(n, Len(audio_data) - e_pos')
          IN  /\ p_pc' = "idle"
              /\ \A c \in 1..channels :
                    Len(out'[c]) = n /\ out'[c] = Expected(c, e_pos', n)
              /\ position' = e_pos' + m
              /\ playing' = (position' < Len(audio_data))]_vars

\* an undisturbed cycle has played the last frame of the source and padded with zeros
C7_Witness ==
    /\ p_pc = "idle" /\ ndone = ncalls /\ ncalls > 0
    /\ e_playing /\ ~cmd_during
    /\ 0 < frames_to_play /\ frames_to_play < frames
    /\ e_pos > 0
    /\ position = Len(audio_data)
    /\ ~playing

\* C8: a process_callback that starts with the cursor at the end of audio_data,
\* playing or not, with no play() during it, returns without error, with every port
\* all zeros and the cursor where it was.
C8_SilencePastEnd ==
    [][CycleEnds /\ e_pos' = Len(audio_data) /\ ~play_during' =>
          /\ p_pc' = "idle"
          /\ \A c \in 1..channels : out'[c] = [i \in 1..frames' |-> 0]
          /\ position' = Len(audio_data)]_vars

\* a cycle that began playing (after resume) at the end of a non-empty source is over
C8_Witness ==
    /\ p_pc = "idle" /\ ndone = ncalls /\ ncalls > 1
    /\ e_playing /\ ~play_during
    /\ Len(audio_data) > 0
    /\ e_pos = Len(audio_data)

\* C9: for one playback (one play()) of a non-empty source, "Playback finished" is
\* printed at most once, whatever callbacks and pause/resume/stop commands follow.
C9_FinishedOnce ==
    played /\ Len(audio_data) > 0 => finished <= 1

\* C10: the cursor stays within 0..len(audio_data), and no slice the callback reads
\* stops beyond len(audio_data), under every interleaving with the commands.
C10_CursorInBounds ==
    /\ 0 <= position /\ position <= Len(audio_data)
    /\ read_hi <= Len(audio_data)

\* a cycle disturbed by play() has read up to the last frame of a non-empty source
C10_Witness ==
    /\ in_cycle /\ play_during
    /\ Len(audio_data) > 1
    /\ read_hi = Len(audio_data)
    /\ position < Len(audio_data)

\* the files and the writer threads
resources == <<nopen, file_state, file_data, wpc, wbuf>>

\* C11: start_recording called while is_recording is True returns at once, returns
\* False, and changes nothing: is_recording, should_stop, audio_queue, output_file and
\* write_thread are as they were, no file is opened and no writer thread is started.
C11_StartWhileRecordingIsNoop ==
    [](is_recording /\ pc["main"] = "idle" =>
          /\ ENABLED start_recording_call("main", MaxSessions)
          /\ ~ENABLED (/\ start_recording_call("main", MaxSessions)
                       /\ ~(/\ ret'["main"] = "False"
                            /\ pc'["main"] = "idle"
                            /\ sink' = sink
                            /\ resources' = resources)))

\* start_recording has returned False to a caller while a session was recording, with
\* blocks queued and the session's writer running
C11_Witness ==
    /\ is_recording /\ pc["main"] = "idle"
    /\ ret["main"] = "False"
    /\ audio_queue # <<>>
    /\ write_thread # None /\ is_alive(write_thread)

\* play() is entered in this step, and returns in this step
PlayEnters == m_pc = "idle" /\ m_pc' = "play"
PlayReturns == m_pc = "play" /\ m_pc' = "idle"

C13_StopWhileIdleIsNoop ==
    /\ [](script = "jack_record" /\ ~is_recording /\ pc["main"] = "idle" =>
            /\ ENABLED stop_recording_call("main")
            /\ ~ENABLED (/\ stop_recording_call("main")
                         /\ ~(/\ ret'["main"] = "None"
                              /\ pc'["main"] = "idle"
                              /\ sink' = sink
                              /\ resources' = resources)))
    /\ [](script = "jack_play" /\ ~playing /\ m_pc = "idle" =>
            /\ ENABLED stop
            /\ ~ENABLED (stop /\ ~(playing' = playing /\ position' = position)))

\* stop_recording has returned to a caller on a recorder that never recorded
C13_Witness ==
    /\ script = "jack_record"
    /\ ret["main"] = "None" /\ pc["main"] = "idle"
    /\ nopen = 0 /\ ~is_recording /\ ~should_stop

\* no start_recording or stop_recording call is in progress
NoCall == \A t \in Callers : pc[t] = "idle"

\* C14: once the writer thread of the session has stopped on a failed write, with no
\* start_recording or stop_recording call in progress, the session is Idle:
\* is_recording is False (process_callback queues nothing more) and the session's
\* output file is closed.
C14_WriteErrorEndsSession ==
    \A w \in Handles :
        (write_thread = w /\ wpc[w] = "dead" /\ write_errors > 0 /\ NoCall) =>
            ~is_recording /\ file_state[w] = "closed"

\* C15: when opening the output file fails, start_recording returns False and the
\* session stays Idle: is_recording is and remains False, should_stop, audio_queue and
\* write_thread are as they were, no thread is started and no file created, and
\* output_file holds no handle.
C15_OpenFailureLeavesIdle ==
    [][pc["main"] = "r_open" /\ pc'["main"] = "idle" =>
          /\ ret'["main"] = "False"
          /\ ~is_recording'
          /\ output_file' = None
          /\ sink' = sink
          /\ resources' = resources]_vars

\* after a session that was stopped, a start_recording has failed to open its file
C15_Witness ==
    /\ ret["main"] = "False" /\ NoCall
    /\ ~is_recording /\ should_stop
    /\ nopen = 1 /\ file_state[1] = "closed"

\* the JACK server shuts down in this step: the client's shutdown callback is called
ShutdownFires == ~jack_down /\ jack_down'

\* C16: a JACK server shutdown is an unsolicited stop request.  When the recorder's
\* shutdown callback has stopped a recording and returns, the main thread being in no
\* call and no second session having been started, the session is Idle: is_recording
\* is False, should_stop is set, no writer thread is alive and no file is open.  A
\* shutdown of an Idle recorder changes nothing.  A shutdown of the player leaves
\* playing False.
C16_ShutdownStopsSession ==
    /\ [][script = "jack_record" /\ StopReturns("jack")
            /\ pc'["main"] = "idle" /\ nopen' = 1 =>
              /\ ~is_recording' /\ should_stop'
              /\ \A w \in Handles : ~is_alive(w)'
              /\ \A h \in Handles : file_state'[h] # "open"]_vars
    /\ [][script = "jack_record" /\ ShutdownFires /\ ~is_recording =>
              sink' = sink /\ resources' = resources]_vars
    /\ [][script = "jack_play" /\ ShutdownFires => ~playing']_vars

\* a stop_recording that found a recording to stop is in progress
Stopping(t) == pc[t] \in {"s_rec", "s_event", "s_alive", "s_join", "s_close", "s_none"}

\* C17: shutdown is responsive.  Under fair scheduling, once stop_recording has set
\* is_recording False and should_stop, every writer thread that is alive eventually
\* ends, and a stop_recording in progress eventually returns.
C17_ShutdownIsResponsive ==
    /\ \A w \in Handles : (should_stop /\ ~is_recording /\ is_alive(w)) ~> ~is_alive(w)
    /\ Stopping("main") ~> pc["main"] = "idle"

\* the blocks the session had put when stop_recording ended it (set is_recording False)
PutBeforeStop == SubSeq(pushed[nopen], 1, at_stop)

\* C18: when stop_recording returns, no block having been dropped and no write having
\* failed, the output file of the session holds the N blocks that process_callback
\* put between start_recording and stop_recording, in capture order, and nothing else
\* (at most the block of a callback that was still running when the session ended).
C18_FileHoldsTheBlocksCaptured ==
    [][StopReturns("main") /\ write_errors' = 0 /\ dropped' = {} =>
          /\ IsPrefix(PutBeforeStop', file_data'[nopen'])
          /\ IsPrefix(file_data'[nopen'], pushed'[nopen'])]_vars

\* C19: when start_recording has succeeded and stop_recording ends the session before
\* any process_callback has put a block, then when stop_recording returns the output
\* file holds no frames and is closed, and no writer thread is alive.
C19_StopBeforeAnyBlock ==
    [][StopReturns("main") /\ at_stop' = 0 =>
          /\ file_data'[nopen'] = <<>>
          /\ file_state'[nopen'] = "closed"
          /\ \A w \in Handles : ~is_alive(w)']_vars

\* C21: recording sessions are isolated.  Every block in the output file of a session
\* was captured by process_callback during that session: no block captured during one
\* session is ever written to the file of a later one.
C21_SessionsIsolated ==
    \A h \in Handles : \A i \in 1..Len(file_data[h]) : session_of[file_data[h][i]] = h

\* process_callback reads position in this step, for the first time in its cycle
ReadsCursor == p_pc = "avail" /\ p_pc' = "copy"

\* C22: every transition of playing from False to True resets the cursor.  Whenever
\* play() or resume() has set playing True when it was False, position is 0 when the
\* next process_callback reads it.
C22_TurningOnResetsCursor ==
    [][played /\ ReadsCursor /\ turned_on => position = 0]_vars

\* C23: the cursor is owned by the real-time thread.  position changes only in the
\* step of process_callback that stores it (line 94), never in a step of a command of
\* the main thread, and so it is, at that store, still the value the callback read.
C23_CursorOwnedByCallback ==
    /\ [][position' # position => p_pc = "store" /\ p_pc' = "end"]_vars
    /\ [][p_pc = "store" /\ p_pc' = "end" => position = tmp]_vars

\* the session state of the player
playback == <<position, playing>>

\* C24 as stated: every command of the command loops is idempotent.  With no step of
\* process_callback since the first of them, the second of two 'p' commands (play,
\* play), of two 's' commands (stop, stop) and of two space commands (pause, resume
\* or resume, pause) leaves position and playing as the first left them, and a
\* recorder that the Enter command has started stays recording.
C24_CommandsIdempotent ==
    /\ [][calls' \in {<<"play", "play">>, <<"stop", "stop">>,
                      <<"pause", "resume">>, <<"resume", "pause">>} =>
            playback' = playback]_vars
    /\ [][script = "jack_record" /\ ret["main"] = "True" =>
            is_recording' = is_recording]_vars

\* C24 as amended: 'p' and 's' are idempotent, Enter and space are toggles.  With no
\* step of process_callback since the first of them, the second of two 'p' commands
\* and of two 's' commands leaves position and playing as the first left them; the
\* second of two space commands reverses the first, leaving playing as it was before
\* the two and position untouched; and the Enter that follows an Enter that started
\* a recording stops it.
C24_PlayStopIdempotentOthersToggle ==
    /\ [][calls' \in {<<"play", "play">>, <<"stop", "stop">>} =>
            playback' = playback]_vars
    /\ [][calls' = <<"pause", "resume">> /\ calls' # calls =>
            ~playing /\ playing' /\ position' = position]_vars
    /\ [][calls' = <<"resume", "pause">> /\ calls' # calls =>
            playing /\ ~playing' /\ position' = position]_vars
    /\ [][script = "jack_record" /\ StopReturns("main") /\ ret["main"] = "True" =>
            ~is_recording']_vars

\* two space commands in a row have paused and resumed a playback in the middle of
\* the source
C24_Witness ==
    /\ calls = <<"pause", "resume">>
    /\ playing /\ 0 < position /\ position < Len(audio_data)

\* C25: a process_callback that found is_recording True and finds room in audio_queue
\* appends exactly one entry at the tail, the copy of the block it captured (the
\* latest block captured), and leaves the entries already queued as they were.  No
\* block is put twice, and no other step of process_callback changes the queue.
C25_OneBlockAppendedPerCallback ==
    /\ [][PutWithRoom => /\ cb_buf = ncb
                         /\ audio_queue' = Append(audio_queue, cb_buf)]_vars
    /\ [][cb_pc' # cb_pc /\ ~PutWithRoom => audio_queue' = audio_queue]_vars
    /\ [](cb_pc = "put" => cb_buf = ncb /\ cb_buf \notin Range(audio_queue))
    /\ [](\A i, j \in 1..Len(audio_queue) : i < j => audio_queue[i] < audio_queue[j])

\* while recording, a callback has appended its block behind one already queued
C25_Witness ==
    /\ is_recording /\ cb_pc = "idle"
    /\ Len(audio_queue) >= 2
    /\ audio_queue[Len(audio_queue)] = ncb

\* C26: a sample-rate mismatch does not block playback.  start_jack returns True
\* exactly when the activation of the client succeeded, whether or not the rate of
\* the server is that of the file, and a mismatch costs one warning; after it play()
\* sets position to 0 and playing True, and every process cycle that begins playing
\* leaves in every port the frames from the cursor followed by zeros and advances
\* the cursor by the frames played, whatever the two rates are.
C26_RateMismatchOnlyWarns ==
    /\ [](j_pc = "done" => (start_ret = "True" <=> client_active))
    /\ [](j_pc = "done" /\ client_active =>
            rate_warnings = IF samplerate # sample_rate THEN 1 ELSE 0)
    /\ [][start_ret = "True" /\ PlayEnters => position' = 0]_vars
    /\ [][start_ret = "True" /\ PlayReturns => playing' /\ position' = position]_vars
    /\ [][start_ret = "True" /\ CycleEnds /\ e_playing' /\ ~cmd_during' =>
            /\ \A c \in 1..channels : out'[c] = Expected(c, e_pos', frames')
            /\ position' = e_pos' + Min(frames', Len(audio_data) - e_pos')]_vars

\* on a server running at another rate than the file's, start_jack has returned True
\* with a warning, play() has started playback, and a process cycle has played the
\* first frames of the source
C26_Witness ==
    /\ samplerate # sample_rate
    /\ start_ret = "True" /\ rate_warnings = 1
    /\ p_pc = "idle" /\ ndone = ncalls /\ ncalls > 0
    /\ e_playing /\ ~cmd_during /\ e_pos = 0
    /\ playing /\ position > 0
    /\ \A c \in 1..channels : out[c] = Expected(c, 0, frames)

\* C27: in every reachable state of the recorder in which is_recording is True and no
\* start_recording or stop_recording call is in progress, on the main thread or in
\* the shutdown callback, should_stop is clear, output_file is an open file and the
\* writer thread of the session is alive.
C27_RecordingHasFileAndWriter ==
    script = "jack_record" /\ is_recording /\ NoCall =>
        /\ ~should_stop
        /\ output_file # None /\ file_state[output_file] = "open"
        /\ write_thread # None /\ is_alive(write_thread)

\* process_callback reads position in this step: at line 67, 78 (the slice start and
\* the slice stop), 94 or 97
ReadsCursorAnywhere ==
    \/ p_pc \in {"avail", "slice", "add", "end"} /\ p_pc' # p_pc
    \/ p_pc = "copy" /\ p_pc' = "slice"

\* C28: a play() on a non-empty source is never lost to a process_callback running
\* beside it.  After play() has returned, the next read of position by the callback
\* finds 0, and playing goes from True to False only by stop() or pause(), or, once
\* the callback has read the new cursor, when the cursor has reached the end of the
\* source.
C28_PlayIsNeverLost ==
    /\ [][Len(audio_data) > 0 /\ ReadsCursorAnywhere /\ play_state = "pending" =>
            position = 0]_vars
    /\ [][Len(audio_data) > 0 /\ play_state # "none" /\ playing /\ ~playing' =>
            \/ calls' # <<>> /\ calls'[Len(calls')] \in {"stop", "pause"}
            \/ play_state = "running" /\ position >= Len(audio_data)]_vars

\* the frame of the source a sample of a port was copied from, counted from 1 (0 for
\* a zero of silence): the inverse of Source
FrameOf(x) == x \div 10

\* C29: within one process_callback that began playing, all output ports receive the
\* same frame range of the source: when it ends, every two ports hold samples of the
\* same frames at the same places, under every interleaving with play().
C29_PortsGetTheSameFrames ==
    [][CycleEnds /\ e_playing' =>
          \A c1, c2 \in 1..channels :
              /\ Len(out'[c1]) = Len(out'[c2])
              /\ \A k \in 1..Len(out'[c1]) :
                    FrameOf(out'[c1][k]) = FrameOf(out'[c2][k])]_vars

\* the samples of port c for the frames of the source before the cursor
PlayedSoFar(c) == [i \in 1..position |-> audio_data[i][c]]

\* C30: pause() and resume() leave position alone, and after one play(), whatever
\* callbacks, pause() and resume() follow, the frames copied into each port are at
\* every moment a run of the source from its first frame with none skipped or
\* repeated, and between two process cycles they are exactly audio_data[0:position]
C30_PauseResumeKeepContinuity ==
    /\ [][later_pause \/ later_resume => position' = position]_vars
    /\ [](played /\ m_pc = "idle" =>
            \A c \in 1..channels :
                /\ Len(emitted[c]) <= Len(audio_data)
                /\ \A i \in 1..Len(emitted[c]) : emitted[c][i] = audio_data[i][c]
                /\ p_pc = "idle" => emitted[c] = PlayedSoFar(c))

\* a playback paused part of the way through the source and resumed
C30_Witness ==
    /\ played
    /\ p_pc = "idle"
    /\ playing
    /\ calls = <<"pause", "resume">>
    /\ position > 0
    /\ position < Len(audio_data)
    /\ \A c \in 1..channels : emitted[c] = PlayedSoFar(c)

\* C31: in AudioSender and in SineWaveGenerator, after callbacks with frame counts
\* f_1..f_k that may differ, phase is f_1+...+f_k, it never decreases, and the sample
\* indices used so far are 0, 1, ..., phase-1 in order: each call uses the f_i integers
\* that follow those of the call before, none skipped and none used twice
C31_PhaseCountsFrames ==
    /\ [](phase = frames_sum /\ g_phase = g_frames_sum)
    /\ [](indices = arange_from(phase, 0) /\ g_indices = arange_from(g_phase, 0))
    /\ [][phase' >= phase /\ g_phase' >= g_phase]_vars

\* three blocks of AudioSender, the last shorter than the ones before
C31_Witness ==
    /\ sender_calls = 3
    /\ Len(samples) = 1
    /\ phase = 2 * MaxFrames + 1
    /\ samples = <<2 * MaxFrames>>

\* C32: process in wav_to_jack.py writes exactly frames samples whatever
\* client.frame_time is: with s = frame_time mod len(sine_wave), the samples at s, s+1,
\* ... taken modulo len(sine_wave), going on from the start of sine_wave at its end,
\* and never a shorter block
C32_BlockWrapsAround ==
    w_calls > 0 =>
        /\ Len(out_buffer) = w_frames
        /\ \A i \in 1..w_frames :
              out_buffer[i] = ((frame_time % sine_len) + (i - 1)) % sine_len

\* the attributes of a SineWaveGenerator and the streams PyAudio has open
generator_state == <<is_playing, stream, open_streams, nstreams, g_phase>>

\* C33: in SineWaveGenerator, start() while is_playing is True opens no stream and
\* changes no state, stop() while is_playing is False changes no state, after any
\* sequence of start() and stop() calls is_playing is True exactly when a stream has
\* been opened and not closed, and at most one stream is open at any time
C33_StartStopIdempotent ==
    /\ [][generator_start /\ is_playing =>
              g_pc' = "idle" /\ UNCHANGED generator_state]_vars
    /\ [][generator_stop /\ ~is_playing =>
              g_pc' = "idle" /\ UNCHANGED generator_state]_vars
    /\ [](g_pc = "idle" => (is_playing <=> open_streams # {}))
    /\ [](Cardinality(open_streams) <= 1)

\* start(), stop(), start() and a start() while playing: the second stream is the
\* one open
C33_Witness ==
    /\ g_pc = "idle"
    /\ g_last = <<"start", TRUE>>
    /\ is_playing
    /\ nstreams = 2
    /\ open_streams = {stream}
    /\ stream = 2

\* C34: in AudioReceiver the buffer stays bounded whatever the number of
\* process_audio calls: len(buffer) <= 999 + the largest block size seen, and once
\* len(buffer) >= 1000 no later callback changes buffer
C34_BufferBounded ==
    /\ [](Len(buffer) <= (buffer_limit - 1) + largest)
    /\ [][Len(buffer) >= buffer_limit => buffer' = buffer]_vars

\* the buffer has passed 1000 samples, and a callback has come after that
C34_Witness ==
    /\ Len(buffer) >= buffer_limit
    /\ r_out # <<>>
    /\ r_out[1] > buffer[Len(buffer)] \div 2

\* a process cycle of the player begins in this step
CycleBegins == p_pc = "idle" /\ ncalls' = ncalls + 1

\* JACK can call the recorder's process_callback, and is_recording is False
CanBeginWhileIdle ==
    /\ script = "jack_record" /\ ~is_recording
    /\ cb_pc = "idle" /\ ~jack_down /\ ncb < MaxCallbacks

\* C20: while the session is not Active the callback has no effect on session data.
\* The recorder's process_callback entered while is_recording is False returns at
\* once and changes no state of the recorder: nothing is put on audio_queue.  The
\* player's process_callback entered while playing is False returns in the same step
\* with every port filled with zeros and position and playing as they were.
C20_CallbackInertWhenNotActive ==
    /\ [](CanBeginWhileIdle =>
            /\ ENABLED process_callback_check(MaxCallbacks)
            /\ ~ENABLED (process_callback_check(MaxCallbacks) /\ recVars' # recVars))
    /\ [][script = "jack_play" /\ CycleBegins /\ ~playing =>
            /\ p_pc' = "idle" /\ ndone' = ndone + 1
            /\ out' = [c \in 1..channels |-> Zeros(frames')]
            /\ position' = position
            /\ playing' = playing]_vars

\* a cycle of the player that began while paused in the middle of the source has
\* filled the ports with zeros and left the cursor where it was
C20_Witness ==
    /\ script = "jack_play"
    /\ p_pc = "idle" /\ ndone = ncalls /\ ncalls > 1
    /\ ~e_playing /\ ~playing /\ ~cmd_during
    /\ 0 < position /\ position < Len(audio_data) /\ e_pos = position
    /\ \A c \in 1..channels : out[c] = Zeros(frames)

====
